---- MODULE Spec2Model ----
(***************************************************************************)
(* Folder/file generators of the Timestamp repository: File.c (main),      *)
(* File.cpp (FolderGenerator) and File.bat.  Strings are sequences of      *)
(* one-character strings; a C array is read with CharAt, which yields the  *)
(* terminating NUL at index strlen.                                        *)
(***************************************************************************)
EXTENDS Integers, Sequences, FiniteSets, TLC

VARIABLES
    \* generate_random_word taken alone
    tk_pc, tk_length, tk_i, tk_index, tk_word,
    \* generate_uuid taken alone
    uu_pc, uu_stream, uu_calls, uu_i, uu_uuid,
    \* the orchestrator: main of File.c, FolderGenerator::generate of File.cpp
    variant,      \* "c" | "cpp": which program runs
    nthreads,     \* size of the team executing the folder loop
    run,          \* 1 for the first execution of the program, 2 for the second
    main_pc,      \* "start" | "generate" | "done" | "error"
    pc,           \* per thread: position in the folder loop
    folder_num, file_num, random_word, timestamp,
    status,       \* per thread: what the last system() / git commit returned
    rng,          \* state of the C runtime's rand(), set by srand
    now,          \* the wall clock: [sec, frac], frac in units of the formatter
    ticks,        \* how often the clock has advanced
    faults,       \* how many mkdir/open failures the environment has injected
    dirs, files,  \* the file system under BASE_DIR
    made,         \* history: every container name a run built and passed to mkdir
    opened,       \* history: every successful open for writing
    log,          \* history: per run and folder, counts of the loop's events
    \* File.bat
    bat_entry,    \* "script": run from line 1; "loop": the folder loop entered at line 18
    bat_pc, bat_stack, bat_j, bat_i, bat_folderName, bat_randStr

tkvars == << tk_pc, tk_length, tk_i, tk_index, tk_word >>
uuvars == << uu_pc, uu_stream, uu_calls, uu_i, uu_uuid >>
thvars == << pc, folder_num, file_num, random_word, timestamp, status >>
envvars == << rng, now, ticks, faults, dirs, files >>
genvars == << variant, nthreads, run, main_pc, thvars, envvars, made, opened, log >>
batvars == << bat_entry, bat_pc, bat_stack, bat_j, bat_i, bat_folderName, bat_randStr >>
vars == << tkvars, uuvars, genvars, batvars >>

(* ------------------------------ bounds -------------------------------- *)

\* Largest token length requested of generate_random_word.
MaxLen == 3
\* Period of the cyclic stream of draws fed to generate_uuid.
StreamLen == 2
\* Folders per run (1000 in File.c:69, File.cpp:77) and files per folder
\* (100 in File.c:85, File.cpp:90), scaled down.
NumFolders == 2
NumFiles == 2
\* How often the clock may advance during the model's runs.
MaxTicks == 1
\* How many mkdir/open failures the environment may inject.
MaxFaults == 1

(* ------------------------- strings and tables ------------------------- *)

NUL == "\\0"

\* s[k] of a C string: the character at 0-based index k, NUL at k = strlen.
CharAt(s, k) == IF k >= 0 /\ k < Len(s) THEN s[k + 1] ELSE NUL

\* File.c:14 / File.cpp:25-28, the 62-character table of the token generator.
charset ==
  << "0", "1", "2", "3", "4", "5", "6", "7", "8", "9", "A", "B", "C", "D", "E", "F",
     "G", "H", "I", "J", "K", "L", "M", "N", "O", "P", "Q", "R", "S", "T", "U", "V",
     "W", "X", "Y", "Z", "a", "b", "c", "d", "e", "f", "g", "h", "i", "j", "k", "l",
     "m", "n", "o", "p", "q", "r", "s", "t", "u", "v", "w", "x", "y", "z" >>

\* Faulty variant, for comparison: the table's size with its terminating NUL, sizeof(charset).
charset_length_sizeof == Len(charset) + 1

\* strlen(charset), File.c:15; sizeof(charset) - 1, File.cpp:31.
charset_length == Len(charset)

\* File.c:37 / File.cpp:53, the hex digit table of the UUID generator.
digits ==
  << "0", "1", "2", "3", "4", "5", "6", "7", "8", "9", "a", "b", "c", "d", "e", "f" >>

\* File.c:38 / File.cpp:55.
uuid_template ==
  << "x", "x", "x", "x", "x", "x", "x", "x", "-", "x", "x", "x", "x", "-", "4", "x", "x", "x",
     "-", "y", "x", "x", "x", "-", "x", "x", "x", "x", "x", "x", "x", "x", "x", "x", "x", "x" >>

\* Values rand() (0..RAND_MAX) and dist_char(gen) (0..61) are drawn from.
RandVals == {0, 9, 10, 35, 36, 61, 62, 32767}

\* Values rand() and dis(gen) (0..15) are drawn from in the UUID generator.
UuidVals == {0, 3, 7, 15, 16, 32767}

\* r & 0x3 and (r & 0x3) | 0x8 for r >= 0.
And3(r) == r % 4
Or8(n) == IF (n \div 8) % 2 = 1 THEN n ELSE n + 8

(* ------------------- generate_random_word (token) --------------------- *)

\* File.c:18, int index = rand() % charset_length.
word_index(r) == r % charset_length

TokenIdle ==
    /\ tk_pc = "idle" /\ tk_length = 0 /\ tk_i = 0 /\ tk_index = 0 /\ tk_word = << >>

TokenInit ==
    /\ tk_pc = "loop"
    /\ tk_length \in 0 .. MaxLen
    /\ tk_i = 0
    /\ tk_index = 0
    /\ tk_word = << >>

\* One iteration of the for loop, File.c:17-20 / File.cpp:30-32.
TokenLoop ==
    /\ tk_pc = "loop"
    /\ tk_i < tk_length
    /\ \E r \in RandVals :
         /\ tk_index' = word_index(r)
         /\ tk_word' = Append(tk_word, CharAt(charset, word_index(r)))
    /\ tk_i' = tk_i + 1
    /\ UNCHANGED << tk_pc, tk_length >>
    /\ UNCHANGED << uuvars, genvars, batvars >>

\* Loop exit, word[length] = '\0' and return: File.c:21-22 / File.cpp:33.
TokenReturn ==
    /\ tk_pc = "loop"
    /\ tk_i >= tk_length
    /\ tk_pc' = "done"
    /\ UNCHANGED << tk_length, tk_i, tk_index, tk_word >>
    /\ UNCHANGED << uuvars, genvars, batvars >>

TokenNext == TokenLoop \/ TokenReturn

(* --------------------------- generate_uuid ---------------------------- *)

\* The k-th value (k = 0, 1, ...) returned by the random source.
StreamAt(stream, k) == stream[(k % Len(stream)) + 1]

\* File.c:43, charset[rand() % 16]; File.cpp:57, digits[dis(gen)].
uuid_x(r) == CharAt(digits, r % 16)

\* Faulty variant, for comparison: the y digit without "| 0x8".
uuid_y_low_bits(r) == CharAt(digits, And3(r))

\* File.c:45 / File.cpp:58, the digit at the y position.
uuid_y(r) == CharAt(digits, Or8(And3(r)))

UuidIdle ==
    /\ uu_pc = "idle" /\ uu_stream = << >> /\ uu_calls = 0 /\ uu_i = 0 /\ uu_uuid = << >>

UuidInit ==
    /\ uu_pc = "loop"
    /\ uu_stream \in [1 .. StreamLen -> UuidVals]
    /\ uu_calls = 0
    /\ uu_i = 0
    /\ uu_uuid = << >>

\* One iteration of the loop over the template, File.c:41-49 / File.cpp:56-59.
UuidLoop ==
    /\ uu_pc = "loop"
    /\ uu_i < Len(uuid_template)
    /\ LET c == CharAt(uuid_template, uu_i)
           r == StreamAt(uu_stream, uu_calls)
       IN  /\ uu_uuid' = Append(uu_uuid,
                            IF c = "x" THEN uuid_x(r)
                            ELSE IF c = "y" THEN uuid_y(r)
                            ELSE c)
           /\ uu_calls' = IF c \in {"x", "y"} THEN uu_calls + 1 ELSE uu_calls
    /\ uu_i' = uu_i + 1
    /\ UNCHANGED << uu_pc, uu_stream >>
    /\ UNCHANGED << tkvars, genvars, batvars >>

\* Loop exit at the template's NUL, File.c:50-51 / File.cpp:60.
UuidReturn ==
    /\ uu_pc = "loop"
    /\ CharAt(uuid_template, uu_i) = NUL
    /\ uu_pc' = "done"
    /\ UNCHANGED << uu_stream, uu_calls, uu_i, uu_uuid >>
    /\ UNCHANGED << tkvars, genvars, batvars >>

UuidNext == UuidLoop \/ UuidReturn

(* ----------------------------- formatting ----------------------------- *)

RECURSIVE Decimal(_)
\* The decimal digits of n >= 0, as printf's %d and std::to_string give them.
Decimal(n) ==
    IF n < 10 THEN << CharAt(digits, n) >>
    ELSE Decimal(n \div 10) \o << CharAt(digits, n % 10) >>

\* printf's %0wd and setfill('0') << setw(w): zero-padded to at least w characters.
Fmt(n, w) ==
    LET d == Decimal(n)
    IN  IF Len(d) >= w THEN d ELSE [i \in 1 .. (w - Len(d)) |-> "0"] \o d

\* The calendar date of the runs (the README's example day); the model's clock
\* stays within that day.
DateStr == << "2", "0", "2", "4", "-", "1", "1", "-", "0", "7" >>

\* Units of now.frac per second: milliseconds for GetLocalTime (File.c:27-32),
\* nanoseconds for the duration_cast of File.cpp:38-45, microseconds for wmic's
\* localdatetime (File.bat:43).
Resolution(v) == IF v = "c" THEN 1000 ELSE IF v = "bat" THEN 1000000 ELSE 1000000000

\* Width of the fraction: %03d in File.c:29, setw(9) in File.cpp:45.
FractionWidth(v) == IF v = "c" THEN 3 ELSE 9

\* File.c:25-33 get_timestamp / File.cpp:36-47 getCurrentTimestamp, of a reading t.
get_timestamp(v, t) ==
    DateStr \o << "_" >> \o Fmt((t.sec \div 3600) % 24, 2) \o << "-" >>
        \o Fmt((t.sec \div 60) % 60, 2) \o << "-" >> \o Fmt(t.sec % 60, 2)
        \o << "-" >> \o Fmt(t.frac, FractionWidth(v))

\* The clock one unit of the formatter's resolution later.
Tick(v, t) ==
    IF t.frac + 1 = Resolution(v) THEN [sec |-> t.sec + 1, frac |-> 0]
    ELSE [sec |-> t.sec, frac |-> t.frac + 1]

\* "%04d_%s" of File.c:74,81; the padding of File.cpp:79-81.
folder_name(n, word) == Fmt(n, 4) \o << "_" >> \o word

\* "%04d_%s_%s.txt" of File.c:93-94,103; File.cpp:92.
file_name(n, word, ts) ==
    folder_name(n, word) \o << "_" >> \o ts \o << ".", "t", "x", "t" >>

\* BASE_DIR/<folder>/<file>, File.c:93 and File.cpp:93, as the pair below BASE_DIR.
file_path(n, word, ts) == << folder_name(n, word), file_name(n, word, ts) >>

(* ------------------------- the C runtime's rand ------------------------ *)

\* srand(seed), File.c:61: the 32-bit generator state as two 16-bit halves.
srand(seed) == [hi |-> (seed \div 65536) % 65536, lo |-> seed % 65536]

\* One step of rand() of the Windows C runtime File.c is built against:
\* state = state * 214013 + 2531011 (mod 2^32), computed on the halves.
rand_step(st) ==
    LET t == st.lo * 17405 + 40643
    IN  [lo |-> t % 65536,
         hi |-> (st.hi * 17405 + st.lo * 3 + 38 + (t \div 65536)) % 65536]

\* The value rand() returns in that state: (state >> 16) & 0x7fff.
rand_value(st) == st.hi % 32768

RECURSIVE Draws(_, _)
\* n successive calls of rand(): the values returned and the state left.
Draws(st, n) ==
    IF n = 0 THEN [vals |-> << >>, st |-> st]
    ELSE LET s1 == rand_step(st)
             rest == Draws(s1, n - 1)
         IN  [vals |-> << rand_value(s1) >> \o rest.vals, st |-> rest.st]

\* generate_random_word as a function of the values drawn, File.c:13-22.
generate_random_word(draws) ==
    [i \in 1 .. Len(draws) |-> CharAt(charset, word_index(draws[i]))]

\* Number of x and y positions of the template: rand() calls per generate_uuid.
UuidDraws == Cardinality({i \in 1 .. Len(uuid_template) : uuid_template[i] \in {"x", "y"}})

\* The sequences of eight dist_char(gen) values File.cpp's generator is taken to give.
CppTokenDraws == { [i \in 1 .. 8 |-> (d * i) % 62] : d \in {7} }

(* ---------------------------- orchestrator ---------------------------- *)

Threads == {1, 2}
Runs == {1, 2}
Team == 1 .. nthreads

\* The static schedule of "#pragma omp parallel for" (File.cpp:76): contiguous
\* chunks of folder numbers, one per thread; the whole range for a team of one.
Chunk == (NumFolders + nthreads - 1) \div nthreads
FirstFolder(t) == (t - 1) * Chunk + 1
LastFolder(t) == IF t * Chunk < NumFolders THEN t * Chunk ELSE NumFolders

\* What system() may return from "git add . && git commit" (File.c:57, File.cpp:65)
\* and what git commit may leave in errorlevel (File.bat:30,65,105).
CommitOutcomes == {"committed", "nothing_to_commit", "failed"}

ZeroLog == [mkdir |-> 0, mkdir_failed |-> 0, folder_commits |-> 0,
            written |-> 0, open_failed |-> 0, file_commits |-> 0]

GenIdle ==
    /\ pc = [t \in Threads |-> "off"]
    /\ folder_num = [t \in Threads |-> 0]
    /\ file_num = [t \in Threads |-> 0]
    /\ random_word = [t \in Threads |-> << >>]
    /\ timestamp = [t \in Threads |-> << >>]
    /\ status = [t \in Threads |-> "none"]
    /\ rng = srand(1)
    /\ ticks = 0
    /\ faults = 0
    /\ dirs = {}
    /\ files = {}
    /\ made = {}
    /\ opened = {}
    /\ log = [r \in Runs |-> [f \in 1 .. NumFolders |-> ZeroLog]]
    /\ run = 1

\* The process before main's first statement, for program v built so that the
\* folder loop runs on a team of n threads; the second of the minute is 59 and the
\* fraction one unit before the next second.
GenInit(v, n) ==
    /\ GenIdle
    /\ variant = v
    /\ nthreads = n
    /\ main_pc = "start"
    /\ now = [sec |-> 59, frac |-> Resolution(v) - 1]

\* A reading of the clock: the same unit of the formatter's resolution as the
\* reading before it, or the next one.
Readings == {now} \cup (IF ticks < MaxTicks THEN {Tick(variant, now)} ELSE {})

\* The position of thread t once file number n of its folder is the next to do:
\* the tests of the file loop (File.c:85, File.cpp:90) and, past the last file,
\* "Completed folder" and the test of the folder loop (File.c:69,115; File.cpp:77,110).
LoopPosition(t, n) ==
    IF n <= NumFiles THEN [pc |-> "for_file", folder |-> folder_num[t], file |-> n]
    ELSE IF folder_num[t] + 1 <= LastFolder(t)
         THEN [pc |-> "for_folder", folder |-> folder_num[t] + 1, file |-> n]
         ELSE [pc |-> "end", folder |-> folder_num[t] + 1, file |-> n]

\* File.c:61-69: srand(time(NULL)), _mkdir(BASE_DIR), the first test of the folder
\* loop; File.cpp:69-77: the constructor and the start of the (parallel) loop.
MainStart ==
    /\ main_pc = "start"
    /\ main_pc' = "generate"
    /\ rng' = IF variant = "c" THEN srand(now.sec) ELSE rng
    /\ pc' = [t \in Threads |->
                IF t \notin Team THEN "off"
                ELSE IF FirstFolder(t) <= LastFolder(t) THEN "for_folder" ELSE "end"]
    /\ folder_num' = [t \in Threads |-> IF t \in Team THEN FirstFolder(t) ELSE 0]
    /\ UNCHANGED << variant, nthreads, run, file_num, random_word, timestamp, status,
                    now, ticks, faults, dirs, files, made, opened, log >>
    /\ UNCHANGED << tkvars, uuvars, batvars >>

\* What a failed directory creation does to the program: _mkdir's return value is
\* dropped (File.c:77); fs::create_directories throws (File.cpp:84), which ends
\* the process (terminate in a parallel region, the catch of main otherwise).
after_mkdir_failure(v) == IF v = "c" THEN "generate" ELSE "error"

\* How many times git_commit is called for a created folder (File.c:82, File.cpp:87).
folder_commit_calls == 1

\* File.c:70-82 / File.cpp:78-87: a token is generated, the folder name is built,
\* the directory is created and git_commit calls system(), which blocks the caller.
CreateFolder(t) ==
    /\ main_pc = "generate"
    /\ pc[t] = "for_folder"
    /\ \E ds \in (IF variant = "c" THEN {Draws(rng, 8)}
                 ELSE {[vals |-> d, st |-> rng] : d \in CppTokenDraws}),
          ok \in BOOLEAN :
         LET word == generate_random_word(ds.vals)
             name == folder_name(folder_num[t], word)
             thrown == ~ok /\ after_mkdir_failure(variant) = "error"
         IN  /\ ok \/ faults < MaxFaults
             /\ rng' = ds.st
             /\ random_word' = [random_word EXCEPT ![t] = word]
             /\ faults' = IF ok THEN faults ELSE faults + 1
             /\ dirs' = IF ok THEN dirs \cup {name} ELSE dirs
             /\ made' = made \cup {[run |-> run, folder |-> folder_num[t], name |-> name]}
             /\ main_pc' = IF thrown THEN "error" ELSE main_pc
             /\ pc' = [pc EXCEPT ![t] = IF thrown THEN @ ELSE "system_folder"]
             /\ log' = [log EXCEPT ![run][folder_num[t]] =
                          [@ EXCEPT !.mkdir = @ + 1,
                                    !.mkdir_failed = IF ok /\ name \notin dirs
                                                     THEN @ ELSE @ + 1,
                                    !.folder_commits = IF thrown THEN @
                                                       ELSE @ + folder_commit_calls]]
    /\ UNCHANGED << variant, nthreads, run, folder_num, file_num, timestamp, status,
                    now, ticks, files, opened >>
    /\ UNCHANGED << tkvars, uuvars, batvars >>

\* Faulty variant, for comparison: the caller tests what system() returned and gives up when it failed.
after_commit_checked(o) == IF o = "committed" THEN "continue" ELSE "exit"

\* What the caller of git_commit does once system() has returned o: the value is
\* not looked at (File.c:57,82,111; File.cpp:65,87,106).
after_commit(o) == "continue"

\* system() returns.  After the folder's commit the file loop starts at file 1
\* (File.c:85, File.cpp:90); after a file's commit it goes to the next file.
GitCommitReturn(t) ==
    /\ main_pc = "generate"
    /\ pc[t] \in {"system_folder", "system_file"}
    /\ \E o \in CommitOutcomes :
         LET to == LoopPosition(t, IF pc[t] = "system_folder" THEN 1 ELSE file_num[t] + 1)
         IN  /\ o = "committed" \/ faults < MaxFaults
             /\ faults' = IF o = "committed" THEN faults ELSE faults + 1
             /\ status' = [status EXCEPT ![t] = o]
             /\ main_pc' = IF after_commit(o) = "continue" THEN main_pc ELSE "error"
             /\ pc' = [pc EXCEPT ![t] = IF after_commit(o) = "continue" THEN to.pc ELSE @]
             /\ folder_num' = [folder_num EXCEPT ![t] = to.folder]
             /\ file_num' = [file_num EXCEPT ![t] = to.file]
    /\ UNCHANGED << variant, nthreads, run, random_word, timestamp,
                    rng, now, ticks, dirs, files, made, opened, log >>
    /\ UNCHANGED << tkvars, uuvars, batvars >>

\* Faulty variant, for comparison: git_commit is called outside the if, also when the open failed.
file_commit_calls_always(was_written) == 1

\* How many times git_commit is called for a record that was written (File.c:111,
\* File.cpp:106) and for one whose open failed (the call is inside the if).
file_commit_calls(was_written) == IF was_written THEN 1 ELSE 0

\* File.c:86-111 / File.cpp:91-106: the clock is read and formatted, the UUID is
\* generated (File.c draws it from rand()), the path is built, the open for writing
\* succeeds (it creates the file or truncates the one already there), six lines are
\* written, the file is closed and git_commit calls system().
WriteRecord(t) ==
    /\ main_pc = "generate"
    /\ pc[t] = "for_file"
    /\ folder_name(folder_num[t], random_word[t]) \in dirs
    /\ \E reading \in Readings :
         LET ts == get_timestamp(variant, reading)
             path == file_path(folder_num[t], random_word[t], ts)
         IN  /\ now' = reading
             /\ ticks' = IF reading = now THEN ticks ELSE ticks + 1
             /\ timestamp' = [timestamp EXCEPT ![t] = ts]
             /\ files' = files \cup {path}
             /\ opened' = opened \cup {[run |-> run, folder |-> folder_num[t],
                                        file |-> file_num[t], path |-> path]}
    /\ rng' = IF variant = "c" THEN Draws(rng, UuidDraws).st ELSE rng
    /\ log' = [log EXCEPT ![run][folder_num[t]] =
                 [@ EXCEPT !.written = @ + 1,
                           !.file_commits = @ + file_commit_calls(TRUE)]]
    /\ pc' = [pc EXCEPT ![t] = "system_file"]
    /\ UNCHANGED << variant, nthreads, run, main_pc, folder_num, file_num, random_word,
                    status, faults, dirs, made >>
    /\ UNCHANGED << tkvars, uuvars, batvars >>

\* Faulty variant, for comparison: an else branch that gives up when the open failed.
after_open_failure_abort == "exit"

\* What the file loop does when the open failed: the if of File.c:98 / File.cpp:96
\* has no else, so the loop goes on with the next file.
after_open_failure == "continue"

\* File.c:86-98,112-113 / File.cpp:91-96,107-108: the clock is read, the path is
\* built and the open fails (always when the folder does not exist); nothing is
\* written and nothing is committed.
SkipRecord(t) ==
    /\ main_pc = "generate"
    /\ pc[t] = "for_file"
    /\ LET forced == folder_name(folder_num[t], random_word[t]) \notin dirs
           to == LoopPosition(t, file_num[t] + 1)
       IN  /\ forced \/ faults < MaxFaults
           /\ faults' = IF forced THEN faults ELSE faults + 1
           /\ main_pc' = IF after_open_failure = "continue" THEN main_pc ELSE "error"
           /\ pc' = [pc EXCEPT ![t] = IF after_open_failure = "continue" THEN to.pc ELSE @]
           /\ folder_num' = [folder_num EXCEPT ![t] = to.folder]
           /\ file_num' = [file_num EXCEPT ![t] = to.file]
    /\ \E reading \in Readings :
         /\ now' = reading
         /\ ticks' = IF reading = now THEN ticks ELSE ticks + 1
         /\ timestamp' = [timestamp EXCEPT ![t] = get_timestamp(variant, reading)]
    /\ rng' = IF variant = "c" THEN Draws(rng, UuidDraws).st ELSE rng
    /\ log' = [log EXCEPT ![run][folder_num[t]] =
                 [@ EXCEPT !.open_failed = @ + 1,
                           !.file_commits = @ + file_commit_calls(FALSE)]]
    /\ UNCHANGED << variant, nthreads, run, random_word, status, dirs, files, made, opened >>
    /\ UNCHANGED << tkvars, uuvars, batvars >>

\* File.c:119-120 / File.cpp:112,125-132: every thread has left the folder loop;
\* the completion message is printed and main returns 0.
MainFinish ==
    /\ main_pc = "generate"
    /\ \A t \in Team : pc[t] = "end"
    /\ main_pc' = "done"
    /\ UNCHANGED << variant, nthreads, run, thvars, envvars, made, opened, log >>
    /\ UNCHANGED << tkvars, uuvars, batvars >>

\* The program is started again on the same base directory: a new process, whose
\* file system and clock are those the first run left.
Restart ==
    /\ main_pc = "done"
    /\ run = 1
    /\ run' = 2
    /\ main_pc' = "start"
    /\ pc' = [t \in Threads |-> "off"]
    /\ folder_num' = [t \in Threads |-> 0]
    /\ file_num' = [t \in Threads |-> 0]
    /\ random_word' = [t \in Threads |-> << >>]
    /\ timestamp' = [t \in Threads |-> << >>]
    /\ status' = [t \in Threads |-> "none"]
    /\ UNCHANGED << variant, nthreads, envvars, made, opened, log >>
    /\ UNCHANGED << tkvars, uuvars, batvars >>

GenNext ==
    \/ MainStart
    \/ MainFinish
    \/ \E t \in Threads :
         \/ CreateFolder(t)
         \/ GitCommitReturn(t)
         \/ WriteRecord(t)
         \/ SkipRecord(t)

(* ------------------------------ File.bat ------------------------------ *)

\* File.bat:7.
bat_charset ==
  << "A", "B", "C", "D", "E", "F", "G", "H", "I", "J", "K", "L", "M", "N", "O", "P",
     "Q", "R", "S", "T", "U", "V", "W", "X", "Y", "Z", "a", "b", "c", "d", "e", "f",
     "g", "h", "i", "j", "k", "l", "m", "n", "o", "p", "q", "r", "s", "t", "u", "v",
     "w", "x", "y", "z", "0", "1", "2", "3", "4", "5", "6", "7", "8", "9" >>

\* !s:~off,len! of cmd: at most len characters of s from 0-based offset off.
Substr(s, off, len) ==
    LET last == IF off + len < Len(s) THEN off + len ELSE Len(s)
    IN  IF off >= Len(s) THEN << >> ELSE SubSeq(s, off + 1, last)

\* File.bat:43,89: the part of wmic's localdatetime before its first ".".
BatDatetime(t) ==
    << "2", "0", "2", "4", "1", "1", "0", "7" >>
        \o Fmt((t.sec \div 3600) % 24, 2) \o Fmt((t.sec \div 60) % 60, 2) \o Fmt(t.sec % 60, 2)

\* File.bat:46-53, the timestamp of the folder loop's files.
BatTimestamp(t) ==
    LET datetime == BatDatetime(t)
    IN  Substr(datetime, 0, 4) \o << "-" >> \o Substr(datetime, 4, 2) \o << "-" >>
        \o Substr(datetime, 6, 2) \o << "_" >> \o Substr(datetime, 8, 2) \o << "-" >>
        \o Substr(datetime, 10, 2) \o << "-" >> \o Substr(datetime, 12, 2) \o << "-" >>
        \o Substr(datetime, 15, 6)

\* File.bat:92-98, the timestamp of the second block's files.
BatTimestamp2(t) ==
    LET datetime == BatDatetime(t)
    IN  Substr(datetime, 0, 4) \o << "-" >> \o Substr(datetime, 4, 2) \o << "-" >>
        \o Substr(datetime, 6, 2) \o << "_" >> \o Substr(datetime, 8, 2) \o << "-" >>
        \o Substr(datetime, 10, 2) \o << "-" >> \o Substr(datetime, 12, 2)

\* File.bat:56, !folderName!_file_%%i_!timestamp!.txt.
BatFileName(name, i, ts) ==
    name \o << "_", "f", "i", "l", "e", "_" >> \o Decimal(i) \o << "_" >> \o ts
        \o << ".", "t", "x", "t" >>

\* File.bat:101, file_%%i_!timestamp!.txt, in the directory the script runs in.
BatRootFile(i, ts) ==
    << << "." >>,
       << "f", "i", "l", "e", "_" >> \o Decimal(i) \o << "_" >> \o ts
           \o << ".", "t", "x", "t" >> >>

BatIdle ==
    /\ bat_entry = "none" /\ bat_pc = "off" /\ bat_stack = << >>
    /\ bat_j = 0 /\ bat_i = 0 /\ bat_folderName = << >> /\ bat_randStr = << >>

\* cmd.exe about to execute File.bat: from its first line, as the file is run
\* (entry "script"), or from the folder loop of line 18, lines 18-109 taken as a
\* unit of their own (entry "loop"); whether a run of the file gets to line 18 is
\* the subject of C9.
BatInit(entry) ==
    /\ GenIdle
    /\ variant = "bat"
    /\ nthreads = 1
    /\ main_pc = "off"
    /\ now = [sec |-> 59, frac |-> Resolution("bat") - 1]
    /\ bat_entry = entry
    /\ bat_pc = IF entry = "script" THEN "L1" ELSE "L18"
    /\ bat_stack = << >>
    /\ bat_j = 1
    /\ bat_i = 0
    /\ bat_folderName = << >>
    /\ bat_randStr = << >>

\* File.bat:1-5: echo off, setlocal; the label of line 5 is no statement and
\* execution goes on into the lines below it.
BatStart ==
    /\ bat_pc = "L1"
    /\ bat_pc' = "L6"
    /\ UNCHANGED << bat_entry, bat_stack, bat_j, bat_i, bat_folderName, bat_randStr >>
    /\ UNCHANGED << tkvars, uuvars, genvars >>

\* File.bat:6-14: ten characters are drawn with !random!; line 14 assigns them to
\* the variable named by the first argument of the call, which is empty when the
\* lines are executed without a call (set "=..." assigns nothing).
BatGenerateRandomString ==
    /\ bat_pc = "L6"
    /\ LET d == Draws(rng, 10)
           randStr == [i \in 1 .. 10 |-> CharAt(bat_charset, d.vals[i] % 62)]
       IN  /\ rng' = d.st
           /\ bat_randStr' = randStr
           /\ bat_folderName' = IF bat_stack # << >> /\ Head(bat_stack).arg = "folderName"
                                THEN randStr ELSE bat_folderName
    /\ bat_pc' = "L15"
    /\ UNCHANGED << bat_entry, bat_stack, bat_j, bat_i >>
    /\ UNCHANGED << variant, nthreads, run, main_pc, thvars, now, ticks, faults, dirs,
                    files, made, opened, log >>
    /\ UNCHANGED << tkvars, uuvars >>

\* File.bat:15, goto :eof: returns to the caller of a call, and ends the script
\* when there is no call to return from.
BatGotoEof ==
    /\ bat_pc = "L15"
    /\ IF bat_stack = << >>
       THEN bat_pc' = "eof" /\ bat_stack' = bat_stack
       ELSE bat_pc' = Head(bat_stack).ret /\ bat_stack' = Tail(bat_stack)
    /\ UNCHANGED << bat_entry, bat_j, bat_i, bat_folderName, bat_randStr >>
    /\ UNCHANGED << tkvars, uuvars, genvars >>

\* File.bat:18-19: the test of the folder loop; call :generateRandomString folderName.
BatForFolder ==
    /\ bat_pc = "L18"
    /\ bat_j <= NumFolders
    /\ bat_stack' = << [ret |-> "L20", arg |-> "folderName"] >> \o bat_stack
    /\ bat_pc' = "L6"
    /\ UNCHANGED << bat_entry, bat_j, bat_i, bat_folderName, bat_randStr >>
    /\ UNCHANGED << tkvars, uuvars, genvars >>

\* File.bat:20-30: the folder is named and made; a failure ends the script with
\* exit /b 1 (lines 23-26), otherwise git add and git commit are run.
BatMakeFolder ==
    /\ bat_pc = "L20"
    /\ LET name == Decimal(bat_j) \o << "_" >> \o bat_folderName
       IN  \E ok \in BOOLEAN :
             /\ ok => name \notin dirs
             /\ ok \/ name \in dirs \/ faults < MaxFaults
             /\ faults' = IF ok \/ name \in dirs THEN faults ELSE faults + 1
             /\ bat_folderName' = name
             /\ dirs' = IF ok THEN dirs \cup {name} ELSE dirs
             /\ made' = made \cup {[run |-> run, folder |-> bat_j, name |-> name]}
             /\ bat_pc' = IF ok THEN "L30" ELSE "exit_L25"
             /\ log' = [log EXCEPT ![run][bat_j] =
                          [@ EXCEPT !.mkdir = @ + 1,
                                    !.mkdir_failed = IF ok THEN @ ELSE @ + 1,
                                    !.folder_commits = IF ok THEN @ + 1 ELSE @]]
    /\ UNCHANGED << bat_entry, bat_stack, bat_j, bat_i, bat_randStr >>
    /\ UNCHANGED << variant, nthreads, run, main_pc, thvars, rng, now, ticks, files, opened >>
    /\ UNCHANGED << tkvars, uuvars >>

\* What the folder loop does with the errorlevel git commit leaves o in
\* (File.bat:32-35 and 67-70): if errorlevel 1 ... exit /b 1.
bat_after_commit(o) == IF o = "committed" THEN "continue" ELSE "exit"

\* File.bat:30-41: git commit ends; on success the script changes into the folder
\* and starts the file loop.
BatFolderCommitReturn ==
    /\ bat_pc = "L30"
    /\ \E o \in CommitOutcomes :
         /\ o = "committed" \/ faults < MaxFaults
         /\ faults' = IF o = "committed" THEN faults ELSE faults + 1
         /\ status' = [status EXCEPT ![1] = o]
         /\ bat_pc' = IF bat_after_commit(o) = "continue" THEN "L41" ELSE "exit_L34"
    /\ bat_i' = 1
    /\ UNCHANGED << bat_entry, bat_stack, bat_j, bat_folderName, bat_randStr >>
    /\ UNCHANGED << variant, nthreads, run, main_pc, pc, folder_num, file_num,
                    random_word, timestamp, rng, now, ticks, dirs, files,
                    made, opened, log >>
    /\ UNCHANGED << tkvars, uuvars >>

\* File.bat:41-65: the test of the file loop passes, the time is read and
\* formatted and the file is written by echo's redirection; a failure ends the
\* script (lines 58-61), otherwise git add and git commit are run.
BatWriteFile ==
    /\ bat_pc = "L41"
    /\ bat_i <= NumFiles
    /\ \E reading \in Readings, ok \in BOOLEAN :
         LET path == << bat_folderName,
                        BatFileName(bat_folderName, bat_i, BatTimestamp(reading)) >>
         IN  /\ ok \/ faults < MaxFaults
             /\ faults' = IF ok THEN faults ELSE faults + 1
             /\ now' = reading
             /\ ticks' = IF reading = now THEN ticks ELSE ticks + 1
             /\ files' = IF ok THEN files \cup {path} ELSE files
             /\ opened' = IF ok THEN opened \cup {[run |-> run, folder |-> bat_j,
                                                   file |-> bat_i, path |-> path]}
                          ELSE opened
             /\ log' = [log EXCEPT ![run][bat_j] =
                          IF ok THEN [@ EXCEPT !.written = @ + 1, !.file_commits = @ + 1]
                          ELSE [@ EXCEPT !.open_failed = @ + 1]]
             /\ bat_pc' = IF ok THEN "L65" ELSE "exit_L60"
    /\ UNCHANGED << bat_entry, bat_stack, bat_j, bat_i, bat_folderName, bat_randStr >>
    /\ UNCHANGED << variant, nthreads, run, main_pc, thvars, rng, dirs, made >>
    /\ UNCHANGED << tkvars, uuvars >>

\* File.bat:65-71: git commit ends; on success the file loop goes to its next file.
BatFileCommitReturn ==
    /\ bat_pc = "L65"
    /\ \E o \in CommitOutcomes :
         /\ o = "committed" \/ faults < MaxFaults
         /\ faults' = IF o = "committed" THEN faults ELSE faults + 1
         /\ status' = [status EXCEPT ![1] = o]
         /\ bat_pc' = IF bat_after_commit(o) = "continue" THEN "L41" ELSE "exit_L69"
    /\ bat_i' = bat_i + 1
    /\ UNCHANGED << bat_entry, bat_stack, bat_j, bat_folderName, bat_randStr >>
    /\ UNCHANGED << variant, nthreads, run, main_pc, pc, folder_num, file_num,
                    random_word, timestamp, rng, now, ticks, dirs, files,
                    made, opened, log >>
    /\ UNCHANGED << tkvars, uuvars >>

\* File.bat:41,71-75: the file loop is over; cd .. and the next folder.
BatCompleteFolder ==
    /\ bat_pc = "L41"
    /\ bat_i > NumFiles
    /\ bat_pc' = "L18"
    /\ bat_j' = bat_j + 1
    /\ UNCHANGED << bat_entry, bat_stack, bat_i, bat_folderName, bat_randStr >>
    /\ UNCHANGED << tkvars, uuvars, genvars >>

\* File.bat:18,75-87: the folder loop is over; endlocal, setlocal, git init and
\* the start of the second block's loop.
BatSecondBlock ==
    /\ bat_pc = "L18"
    /\ bat_j > NumFolders
    /\ bat_pc' = "L87"
    /\ bat_i' = 1
    /\ UNCHANGED << bat_entry, bat_stack, bat_j, bat_folderName, bat_randStr >>
    /\ UNCHANGED << tkvars, uuvars, genvars >>

\* File.bat:87-105: the time is read and formatted, echo's redirection writes the
\* file (no errorlevel is tested), git add and git commit are run.
BatWriteRootFile ==
    /\ bat_pc = "L87"
    /\ bat_i <= NumFiles
    /\ \E reading \in Readings, ok \in BOOLEAN :
         LET path == BatRootFile(bat_i, BatTimestamp2(reading))
         IN  /\ ok \/ faults < MaxFaults
             /\ faults' = IF ok THEN faults ELSE faults + 1
             /\ now' = reading
             /\ ticks' = IF reading = now THEN ticks ELSE ticks + 1
             /\ files' = IF ok THEN files \cup {path} ELSE files
    /\ bat_pc' = "L105"
    /\ UNCHANGED << bat_entry, bat_stack, bat_j, bat_i, bat_folderName, bat_randStr >>
    /\ UNCHANGED << variant, nthreads, run, main_pc, thvars, rng, dirs, made, opened, log >>
    /\ UNCHANGED << tkvars, uuvars >>

\* File.bat:105-106: git commit ends (no errorlevel is tested); the next file.
BatRootCommitReturn ==
    /\ bat_pc = "L105"
    /\ \E o \in CommitOutcomes :
         /\ o = "committed" \/ faults < MaxFaults
         /\ faults' = IF o = "committed" THEN faults ELSE faults + 1
         /\ status' = [status EXCEPT ![1] = o]
    /\ bat_pc' = "L87"
    /\ bat_i' = bat_i + 1
    /\ UNCHANGED << bat_entry, bat_stack, bat_j, bat_folderName, bat_randStr >>
    /\ UNCHANGED << variant, nthreads, run, main_pc, pc, folder_num, file_num,
                    random_word, timestamp, rng, now, ticks, dirs, files,
                    made, opened, log >>
    /\ UNCHANGED << tkvars, uuvars >>

\* File.bat:87,106-109: the second loop is over and the file ends.
BatEnd ==
    /\ bat_pc = "L87"
    /\ bat_i > NumFiles
    /\ bat_pc' = "eof"
    /\ UNCHANGED << bat_entry, bat_stack, bat_j, bat_i, bat_folderName, bat_randStr >>
    /\ UNCHANGED << tkvars, uuvars, genvars >>

BatNext ==
    \/ BatStart
    \/ BatGenerateRandomString
    \/ BatGotoEof
    \/ BatForFolder
    \/ BatMakeFolder
    \/ BatFolderCommitReturn
    \/ BatWriteFile
    \/ BatFileCommitReturn
    \/ BatCompleteFolder
    \/ BatSecondBlock
    \/ BatWriteRootFile
    \/ BatRootCommitReturn
    \/ BatEnd

(* ------------------------------- claims ------------------------------- *)

IsGen == variant \in {"c", "cpp"}

\* Threads whose system() call is in progress, and threads inside a folder's iteration.
InCommit == {t \in Threads : pc[t] \in {"system_folder", "system_file"}}
InFolder == {t \in Threads : pc[t] \in {"system_folder", "for_file", "system_file"}}

RECURSIVE Total(_, _, _)
\* Sum over the folders 1..n of run r of the counter the operator Of reads.
Total(Of(_), r, n) == IF n = 0 THEN 0 ELSE Of(log[r][n]) + Total(Of, r, n - 1)

CommitCalls(L) == L.folder_commits + L.file_commits
Written(L) == L.written

\* C1: at most one git commit invocation is in progress at any time, and at most one
\* folder iteration is under way (a folder and all its records are created and
\* committed before the next folder's iteration begins).
C1_CommitsSerialized ==
    IsGen => Cardinality(InCommit) <= 1 /\ Cardinality(InFolder) <= 1

\* C2: a finished run in which no directory creation and no file open failed has left
\* exactly NumFolders folders and exactly NumFiles files in each of them.
C2_ExactCounts ==
    (/\ IsGen
     /\ main_pc = "done"
     /\ \A f \in 1 .. NumFolders : log[1][f].mkdir_failed = 0 /\ log[1][f].open_failed = 0)
    => /\ Cardinality(dirs) = NumFolders
       /\ \A d \in dirs : Cardinality({p \in files : p[1] = d}) = NumFiles

\* C3: two different file-loop iterations of the same folder (of the same run) never
\* open the same path for writing.
C3_RecordNamesUnique ==
    \A a \in opened : \A b \in opened :
        (IsGen /\ a.run = b.run /\ a.folder = b.folder /\ a.file # b.file)
        => a.path # b.path

C6_RunsDisjoint ==
    /\ \A a \in made : \A b \in made : a.run # b.run => a.name # b.name
    /\ \A a \in opened : \A b \in opened : a.run # b.run => a.path # b.path

HexDigits == {"0", "1", "2", "3", "4", "5", "6", "7", "8", "9", "a", "b", "c", "d", "e", "f"}

\* C7: the generated UUID has 36 characters: "-" at positions 9, 14, 19 and 24, "4"
\* at position 15, one of 8, 9, a, b at position 20 and a lowercase hexadecimal
\* digit everywhere else.
C7_UuidLayout ==
    uu_pc = "done" =>
        /\ Len(uu_uuid) = 36
        /\ \A i \in 1 .. Len(uu_uuid) :
             IF i \in {9, 14, 19, 24} THEN uu_uuid[i] = "-"
             ELSE IF i = 15 THEN uu_uuid[i] = "4"
             ELSE IF i = 20 THEN uu_uuid[i] \in {"8", "9", "a", "b"}
             ELSE uu_uuid[i] \in HexDigits

\* C7's case: a finished UUID whose y position drew a value with low bits 11.
C7_Witness == uu_pc = "done" /\ Len(uu_uuid) = 36 /\ uu_uuid[20] = "b"

Alphanumerics ==
    {"0", "1", "2", "3", "4", "5", "6", "7", "8", "9",
     "A", "B", "C", "D", "E", "F", "G", "H", "I", "J", "K", "L", "M",
     "N", "O", "P", "Q", "R", "S", "T", "U", "V", "W", "X", "Y", "Z",
     "a", "b", "c", "d", "e", "f", "g", "h", "i", "j", "k", "l", "m",
     "n", "o", "p", "q", "r", "s", "t", "u", "v", "w", "x", "y", "z"}

\* C8: every index into the character table is in 0..61, and the returned token has
\* exactly the requested length and only characters of the 62-character alphabet.
C8_TokenLengthAndAlphabet ==
    /\ tk_index \in 0 .. 61
    /\ Cardinality(Alphanumerics) = 62
    /\ tk_pc = "done" =>
         /\ Len(tk_word) = tk_length
         /\ \A i \in 1 .. Len(tk_word) : tk_word[i] \in Alphanumerics

\* C8's case: a returned token of the largest length whose last draw was past the
\* table's size (62, reduced to index 0).
C8_Witness ==
    tk_pc = "done" /\ tk_length = MaxLen /\ Len(tk_word) = MaxLen /\ tk_word[MaxLen] = "0"

\* C9: File.bat run from its first line ends only after its folder loop has made
\* and committed every folder and written and committed every file in it.
C9_BatRunsFolderLoop ==
    (variant = "bat" /\ bat_entry = "script" /\ bat_pc = "eof")
    => \A f \in 1 .. NumFolders :
         /\ log[1][f].mkdir = 1 /\ log[1][f].folder_commits = 1
         /\ log[1][f].written = NumFiles /\ log[1][f].file_commits = NumFiles

GenOff ==
    /\ GenIdle /\ variant = "c" /\ nthreads = 1 /\ main_pc = "off"
    /\ now = [sec |-> 0, frac |-> 0]

\* File.bat; File.c; File.cpp built without OpenMP (the pragma of File.cpp:76 is then
\* ignored and the folder loop runs on the calling thread) and with it (a team
\* of two threads); each run once.
Init ==
    /\ TokenIdle /\ UuidIdle
    /\ \/ BatIdle /\ \E v \in {"c", "cpp"} :
                      \E n \in (IF v = "c" THEN {1} ELSE {1, 2}) : GenInit(v, n)
       \/ \E entry \in {"script", "loop"} : BatInit(entry)
Next == GenNext \/ BatNext
Spec == Init /\ [][Next]_vars

\* File.c run twice on the same base directory.
InitTwice == TokenIdle /\ UuidIdle /\ BatIdle /\ GenInit("c", 1)
NextTwice == GenNext \/ Restart
SpecTwice == InitTwice /\ [][NextTwice]_vars

\* generate_random_word taken alone.
InitToken == TokenInit /\ UuidIdle /\ BatIdle /\ GenOff
SpecToken == InitToken /\ [][TokenNext]_vars

\* generate_uuid taken alone.
InitUuid == TokenIdle /\ UuidInit /\ BatIdle /\ GenOff
SpecUuid == InitUuid /\ [][UuidNext]_vars
====
